---- MODULE Spec2Model ----
(***************************************************************************)
(* MindStacks: the record store (StorageService), the SM-2 scheduler       *)
(* (SpacedRepetitionService) and the application store with its study      *)
(* session (useAppStore).                                                  *)
(*                                                                         *)
(* Representation.                                                         *)
(*  - A card is a record of the fields the services read or write: id,     *)
(*    deckId, difficulty, interval, easeFactor, repetitions, lastReview,   *)
(*    nextReview.  question, answer and created are written once and never *)
(*    read by any service, they are left out.  A deck is id, name and      *)
(*    cardCount.                                                           *)
(*  - easeFactor is held in hundredths (250 is 2.5).  Every constant of    *)
(*    the SM-2 update (0.2, 0.1, 0.08, 0.02, 1.3) is a whole number of     *)
(*    hundredths, so the update is exact in this unit; the binary          *)
(*    rounding error of the JavaScript doubles is not modelled.            *)
(*  - An optional timestamp that is absent (undefined) is Absent.          *)
(*  - The clock counts units of 1/DayLength of a day since the first use   *)
(*    of the application and starts at 1 (Date.now() is never 0).          *)
(*  - generateId is a counter: ids are fresh and never reused.  issued     *)
(*    remembers whether an id was made for a deck or for a card.           *)
(*  - localStorage holds the three collections; a key that was never       *)
(*    written reads as the empty list / the zero statistics, as getDecks,  *)
(*    getFlashcards and getStats make it.                                  *)
(*  - StudyView is the countdown state cardTimeLeft, its pending timeout  *)
(*    and its two effects.  A render and the effects that follow it are    *)
(*    one step, taken before the next event; both effects read the values  *)
(*    of that render, and a state set inside an effect shows in the next   *)
(*    render.  seenIndex, seenTimeLeft and sessionSet hold what the effect *)
(*    dependencies are compared with.                                      *)
(*  - A localStorage.setItem may throw; thrown tells that the last call on *)
(*    the record store ended with an exception.                            *)
(***************************************************************************)
EXTENDS Integers, Sequences, FiniteSets, TLC

(* ------------------------------ bounds --------------------------------- *)

\* ids handed out by generateId (decks and cards together)
MaxIds == 4
\* decks and cards the store holds at one time
MaxDecks == 2
MaxCards == 2
\* reviews recorded in one run (caps UserStats.totalReviews and the intervals)
MaxReviews == 3
\* last value of the clock
MaxNow == 3
\* clock units per day
DayLength == 2

Ids == 1..MaxIds
\* an id generateId never hands out
NoSuchId == MaxIds + 1
\* quality values a caller may pass: the 0..5 scale and values outside it
Qualities == -1..6
Difficulties == {"easy", "medium", "hard"}
Modes == {"learn", "test", "review"}
Names == {"a", "b"}
\* the name a deck is created with
NewNames == {"a"}

Absent == -1
null == [null |-> TRUE]

VARIABLES
    lsDecks,        \* localStorage mindstack_decks
    lsFlashcards,   \* localStorage mindstack_flashcards
    lsStats,        \* localStorage mindstack_stats
    issued,         \* what generateId made each id for, in order: "deck" or "card"
    now,            \* Date.now()
    decks,          \* useAppStore.decks
    flashcards,     \* useAppStore.flashcards
    selectedDeckId, \* useAppStore.selectedDeckId (0 is null)
    studySession,   \* useAppStore.studySession
    stats,          \* useAppStore.stats
    cardTimeLeft,   \* StudyView state cardTimeLeft
    timer,          \* StudyView: the timeout of the countdown is scheduled
    seenIndex,      \* studySession?.currentIndex of the last render (Absent is undefined)
    seenTimeLeft,   \* cardTimeLeft of the last render
    sessionSet,     \* studySession was replaced since the last render
    thrown          \* the last call of the record store threw

vars == <<lsDecks, lsFlashcards, lsStats, issued, now,
          decks, flashcards, selectedDeckId, studySession, stats,
          cardTimeLeft, timer, seenIndex, seenTimeLeft, sessionSet, thrown>>

storeVars == <<lsDecks, lsFlashcards, lsStats>>
appVars == <<decks, flashcards, selectedDeckId, studySession, stats>>
viewVars == <<cardTimeLeft, timer, seenIndex, seenTimeLeft, sessionSet>>

(* ------------------------------ helpers -------------------------------- *)

\* Array.prototype.findIndex, 1-based; 0 when nothing matches (-1 in the code)
FindIndex(seq, P(_)) ==
    IF \E i \in DOMAIN seq : P(seq[i])
    THEN CHOOSE i \in DOMAIN seq : P(seq[i]) /\ \A j \in 1..(i - 1) : ~P(seq[j])
    ELSE 0

\* object spread { ...rec, ...updates }
Merge(rec, updates) ==
    [f \in DOMAIN rec |-> IF f \in DOMAIN updates THEN updates[f] ELSE rec[f]]

\* Array.prototype.map
MapSeq(seq, F(_)) == [i \in DOMAIN seq |-> F(seq[i])]

Range(seq) == {seq[i] : i \in DOMAIN seq}

Max(a, b) == IF a >= b THEN a ELSE b
Min(a, b) == IF a <= b THEN a ELSE b

\* Math.round of the non-negative number n / 100
RoundHundredths(n) == (n + 50) \div 100

ZeroStats == [totalCards |-> 0, totalDecks |-> 0, totalReviews |-> 0,
              correctReviews |-> 0, streak |-> 0]

(* --------------------------- StorageService ---------------------------- *)

\* the id the next create gets
generateId == Len(issued) + 1

\* what a key of localStorage holds when it is not a stored collection:
\* nothing (getItem returns null), or a text JSON.parse rejects
Missing == <<[missing |-> TRUE]>>
Unparsable == <<[unparsable |-> TRUE]>>
MissingStats == [missing |-> TRUE]
UnparsableStats == [unparsable |-> TRUE]

\* getDecks without the test for null and without the catch
getDecksNoCatch == lsDecks

getDecks == IF lsDecks \in {Missing, Unparsable} THEN <<>> ELSE lsDecks

getDeckIn(ds, deckId) == FindIndex(ds, LAMBDA d : d.id = deckId)

\* 0 is the null selection: getFlashcards(deckId?) filters only for a truthy id
getFlashcardsIn(cs, deckId) ==
    IF deckId # 0 THEN SelectSeq(cs, LAMBDA c : c.deckId = deckId) ELSE cs

getFlashcards(deckId) ==
    IF lsFlashcards \in {Missing, Unparsable} THEN <<>>
    ELSE getFlashcardsIn(lsFlashcards, deckId)

getFlashcardIn(cs, cardId) == FindIndex(cs, LAMBDA c : c.id = cardId)

getStats == IF lsStats \in {MissingStats, UnparsableStats} THEN ZeroStats ELSE lsStats

NewDeck(id, name) == [id |-> id, name |-> name, cardCount |-> 0]

NewCard(id, deckId, difficulty) ==
    [id |-> id, deckId |-> deckId, difficulty |-> difficulty,
     interval |-> 1, easeFactor |-> 250, repetitions |-> 0,
     lastReview |-> Absent, nextReview |-> Absent]

\* the deck list updateDeck writes; unchanged when the id is unknown
updateDeckIn(ds, deckId, updates) ==
    LET index == FindIndex(ds, LAMBDA d : d.id = deckId)
    IN  IF index = 0 THEN ds
        ELSE [ds EXCEPT ![index] = Merge(@, updates)]

\* the card list updateFlashcard writes; unchanged when the id is unknown
updateFlashcardIn(cs, cardId, updates) ==
    LET index == FindIndex(cs, LAMBDA c : c.id = cardId)
    IN  IF index = 0 THEN cs
        ELSE [cs EXCEPT ![index] = Merge(@, updates)]

\* the deck list after createFlashcard's count update
DecksAfterCreateCard(ds, deckId) ==
    LET i == getDeckIn(ds, deckId)
    IN  IF i # 0
        THEN updateDeckIn(ds, deckId, [cardCount |-> ds[i].cardCount + 1])
        ELSE ds

\* deleteFlashcard without the count update
DecksAfterDeleteCardNoUpdate(ds, deckId) == ds

\* the deck list after deleteFlashcard's count update for a card of deckId
DecksAfterDeleteCard(ds, deckId) ==
    LET i == getDeckIn(ds, deckId)
    IN  IF i # 0 /\ ds[i].cardCount > 0
        THEN updateDeckIn(ds, deckId, [cardCount |-> ds[i].cardCount - 1])
        ELSE ds

\* the deck list after deleteAllFlashcardsInDeck's count reset
DecksAfterDeleteAll(ds, deckId) ==
    IF getDeckIn(ds, deckId) # 0
    THEN updateDeckIn(ds, deckId, [cardCount |-> 0])
    ELSE ds

\* ids a caller can name: those handed out so far, live or deleted, and one
\* that names nothing (a caller cannot know an id before generateId made it)
DeckIds == {i \in DOMAIN issued : issued[i] = "deck"} \cup {NoSuchId}
CardIds == {i \in DOMAIN issued : issued[i] = "card"} \cup {NoSuchId}

\* partial updates a caller passes to updateDeck / updateFlashcard
DeckUpdates == {[name |-> n] : n \in Names}
CardUpdates == {[difficulty |-> d] : d \in Difficulties}
                   \cup {[deckId |-> d] : d \in DeckIds}

\* createDeck that counts the deck in the statistics
createDeckCounting(name) ==
    /\ Len(issued) < MaxIds
    /\ Len(getDecks) < MaxDecks
    /\ issued' = Append(issued, "deck")
    /\ lsDecks' = Append(getDecks, NewDeck(generateId, name))
    /\ lsStats' = [getStats EXCEPT !.totalDecks = @ + 1]
    /\ UNCHANGED lsFlashcards

createDeck(name) ==
    /\ Len(issued) < MaxIds
    /\ Len(getDecks) < MaxDecks
    /\ issued' = Append(issued, "deck")
    /\ lsDecks' = Append(getDecks, NewDeck(generateId, name))
    /\ UNCHANGED <<lsFlashcards, lsStats>>

updateDeck(deckId, updates) ==
    /\ lsDecks' = IF getDeckIn(getDecks, deckId) = 0 THEN lsDecks
                  ELSE updateDeckIn(getDecks, deckId, updates)
    /\ UNCHANGED <<lsFlashcards, lsStats, issued>>

\* deleteDeck that removes the deck and leaves its cards
deleteDeckNoCascade(deckId) ==
    /\ lsDecks' = SelectSeq(getDecks, LAMBDA d : d.id # deckId)
    /\ UNCHANGED <<lsFlashcards, lsStats, issued>>

deleteDeck(deckId) ==
    /\ lsDecks' = SelectSeq(getDecks, LAMBDA d : d.id # deckId)
    /\ lsFlashcards' = SelectSeq(getFlashcards(0), LAMBDA f : f.deckId # deckId)
    /\ UNCHANGED <<lsStats, issued>>

createFlashcard(deckId, difficulty) ==
    /\ Len(issued) < MaxIds
    /\ Len(getFlashcards(0)) < MaxCards
    /\ issued' = Append(issued, "card")
    /\ lsFlashcards' = Append(getFlashcards(0), NewCard(generateId, deckId, difficulty))
    /\ lsDecks' = IF getDeckIn(getDecks, deckId) = 0 THEN lsDecks
                  ELSE DecksAfterCreateCard(getDecks, deckId)
    /\ UNCHANGED lsStats

updateFlashcard(cardId, updates) ==
    /\ lsFlashcards' = IF getFlashcardIn(getFlashcards(0), cardId) = 0 THEN lsFlashcards
                       ELSE updateFlashcardIn(getFlashcards(0), cardId, updates)
    /\ UNCHANGED <<lsDecks, lsStats, issued>>

deleteFlashcard(cardId) ==
    LET i == getFlashcardIn(getFlashcards(0), cardId)
    IN  IF i = 0
        THEN UNCHANGED <<lsDecks, lsFlashcards, lsStats, issued>>
        ELSE /\ lsFlashcards' = SelectSeq(getFlashcards(0), LAMBDA c : c.id # cardId)
             /\ lsDecks' = IF getDeckIn(getDecks, getFlashcards(0)[i].deckId) = 0
                           THEN lsDecks
                           ELSE DecksAfterDeleteCard(getDecks, getFlashcards(0)[i].deckId)
             /\ UNCHANGED <<lsStats, issued>>

deleteAllFlashcardsInDeck(deckId) ==
    /\ lsFlashcards' = SelectSeq(getFlashcards(0), LAMBDA c : c.deckId # deckId)
    /\ lsDecks' = IF getDeckIn(getDecks, deckId) = 0 THEN lsDecks
                  ELSE DecksAfterDeleteAll(getDecks, deckId)
    /\ UNCHANGED <<lsStats, issued>>

\* what updateDeck, updateFlashcard and deleteFlashcard return
updateDeckResult(deckId, updates) ==
    LET index == FindIndex(getDecks, LAMBDA d : d.id = deckId)
    IN  IF index = 0 THEN null ELSE Merge(getDecks[index], updates)

updateFlashcardResult(cardId, updates) ==
    LET index == FindIndex(getFlashcards(0), LAMBDA c : c.id = cardId)
    IN  IF index = 0 THEN null ELSE Merge(getFlashcards(0)[index], updates)

deleteFlashcardResult(cardId) == getFlashcardIn(getFlashcards(0), cardId) # 0

exportData ==
    [decks |-> getDecks, flashcards |-> getFlashcards(0), stats |-> getStats,
     exportedAt |-> now]

\* JSON.stringify leaves out a field that is undefined, and JSON.parse gives
\* back the fields the text holds; a field that is not there reads undefined
OptionalFields == {"lastReview", "nextReview"}

stringifyCard(card) ==
    [f \in {g \in DOMAIN card : g \notin OptionalFields \/ card[g] # Absent} |-> card[f]]

parseCard(text) ==
    [f \in DOMAIN text \cup OptionalFields |->
        IF f \in DOMAIN text THEN text[f] ELSE Absent]

\* a card list written with JSON.stringify and read back with JSON.parse
JsonCards(cs) == [i \in DOMAIN cs |-> parseCard(stringifyCard(cs[i]))]

\* what exportData returns before anything was stored
EmptySnapshot == [decks |-> <<>>, flashcards |-> <<>>, stats |-> ZeroStats]

\* importData that takes a collection the data leaves out as empty
StoreAfterImportDefaulting(data, keys) ==
    [decks |-> IF "decks" \in keys THEN data.decks ELSE <<>>,
     flashcards |-> IF "flashcards" \in keys THEN JsonCards(data.flashcards) ELSE <<>>,
     stats |-> IF "stats" \in keys THEN data.stats ELSE ZeroStats]

\* what the three keys hold after importData(data), where data holds the
\* collections named in keys
StoreAfterImport(data, keys) ==
    [decks |-> IF "decks" \in keys THEN data.decks ELSE lsDecks,
     flashcards |-> IF "flashcards" \in keys THEN JsonCards(data.flashcards)
                    ELSE lsFlashcards,
     stats |-> IF "stats" \in keys THEN data.stats ELSE lsStats]

importData(data, keys) ==
    /\ lsDecks' = StoreAfterImport(data, keys).decks
    /\ lsFlashcards' = StoreAfterImport(data, keys).flashcards
    /\ lsStats' = StoreAfterImport(data, keys).stats
    /\ UNCHANGED issued

\* clearAllData removes the three keys
clearAllData ==
    /\ lsDecks' = Missing
    /\ lsFlashcards' = Missing
    /\ lsStats' = MissingStats
    /\ UNCHANGED issued

\* localStorage.setItem can throw (the quota is exceeded, the storage is not
\* available).  The writes a call makes, in order, as key and value:

deleteDeckWrites(deckId) ==
    <<[key |-> "decks", value |-> SelectSeq(getDecks, LAMBDA d : d.id # deckId)],
      [key |-> "flashcards",
       value |-> SelectSeq(getFlashcards(0), LAMBDA f : f.deckId # deckId)]>>

createFlashcardWrites(deckId, difficulty) ==
    <<[key |-> "flashcards",
       value |-> Append(getFlashcards(0), NewCard(generateId, deckId, difficulty))]>>
    \o (IF getDeckIn(getDecks, deckId) # 0
        THEN <<[key |-> "decks", value |-> DecksAfterCreateCard(getDecks, deckId)]>>
        ELSE <<>>)

deleteFlashcardWrites(cardId) ==
    LET i == getFlashcardIn(getFlashcards(0), cardId)
        deckId == getFlashcards(0)[i].deckId
        d == getDeckIn(getDecks, deckId)
    IN  IF i = 0 THEN <<>>
        ELSE <<[key |-> "flashcards",
                value |-> SelectSeq(getFlashcards(0), LAMBDA c : c.id # cardId)]>>
             \o (IF d # 0 /\ getDecks[d].cardCount > 0
                 THEN <<[key |-> "decks",
                         value |-> DecksAfterDeleteCard(getDecks, deckId)]>>
                 ELSE <<>>)

deleteAllFlashcardsInDeckWrites(deckId) ==
    <<[key |-> "flashcards",
       value |-> SelectSeq(getFlashcards(0), LAMBDA c : c.deckId # deckId)]>>
    \o (IF getDeckIn(getDecks, deckId) # 0
        THEN <<[key |-> "decks", value |-> DecksAfterDeleteAll(getDecks, deckId)]>>
        ELSE <<>>)

importDataWrites(data, keys) ==
    (IF "decks" \in keys THEN <<[key |-> "decks", value |-> data.decks]>> ELSE <<>>)
    \o (IF "flashcards" \in keys
        THEN <<[key |-> "flashcards", value |-> JsonCards(data.flashcards)]>> ELSE <<>>)
    \o (IF "stats" \in keys THEN <<[key |-> "stats", value |-> data.stats]>> ELSE <<>>)

\* what the key holds once the first n writes are made
LastWrite(writes, n, key, old) ==
    LET made == {i \in 1..n : writes[i].key = key}
    IN  IF made = {} THEN old
        ELSE writes[CHOOSE i \in made : \A j \in made : j <= i].value

\* a call whose write number failAt throws: the writes before it are made;
\* the exception leaves the call unless the call catches it
failing(writes, failAt, caught) ==
    /\ failAt \in 1..Len(writes)
    /\ lsDecks' = LastWrite(writes, failAt - 1, "decks", lsDecks)
    /\ lsFlashcards' = LastWrite(writes, failAt - 1, "flashcards", lsFlashcards)
    /\ lsStats' = LastWrite(writes, failAt - 1, "stats", lsStats)
    /\ thrown' = ~caught

failingDeleteDeck(deckId, failAt) ==
    /\ failing(deleteDeckWrites(deckId), failAt, FALSE)
    /\ UNCHANGED issued

failingCreateFlashcard(deckId, difficulty, failAt) ==
    /\ Len(issued) < MaxIds
    /\ Len(getFlashcards(0)) < MaxCards
    /\ issued' = Append(issued, "card")
    /\ failing(createFlashcardWrites(deckId, difficulty), failAt, FALSE)

failingDeleteFlashcard(cardId, failAt) ==
    /\ failing(deleteFlashcardWrites(cardId), failAt, FALSE)
    /\ UNCHANGED issued

failingDeleteAllFlashcardsInDeck(deckId, failAt) ==
    /\ failing(deleteAllFlashcardsInDeckWrites(deckId), failAt, FALSE)
    /\ UNCHANGED issued

\* importData catches the exception and returns false
failingImportData(data, keys, failAt) ==
    /\ failing(importDataWrites(data, keys), failAt, TRUE)
    /\ UNCHANGED issued

(* ----------------------- SpacedRepetitionService ----------------------- *)

\* due only once the time of the next review has passed
isDueStrictly(card, t) ==
    IF card.nextReview = Absent \/ card.nextReview = 0 THEN TRUE
    ELSE card.nextReview < t

\* card.nextReview <= now, after the test for a new card
isDue(card, t) ==
    IF card.nextReview = Absent \/ card.nextReview = 0 THEN TRUE
    ELSE card.nextReview <= t

getCardsDueForReviewIn(cs, deckId, t) ==
    SelectSeq(getFlashcardsIn(cs, deckId), LAMBDA card : isDue(card, t))

getCardsDueForReview(deckId) == getCardsDueForReviewIn(getFlashcards(0), deckId, now)

\* the quality taken as it comes
ClampMissing(quality) == quality

\* quality = Math.max(0, Math.min(5, quality))
Clamp(quality) == Max(0, Min(5, quality))

\* statistics that count a review as correct only from quality 4
StatsAfterReviewFromFour(st, q) ==
    Merge(st, [totalReviews |-> st.totalReviews + 1,
               correctReviews |-> IF q >= 4 THEN st.correctReviews + 1
                                  ELSE st.correctReviews])

\* the statistics recordReview writes, q already clamped
StatsAfterReview(st, q) ==
    Merge(st, [totalReviews |-> st.totalReviews + 1,
               correctReviews |-> IF q >= 3 THEN st.correctReviews + 1
                                  ELSE st.correctReviews])

\* failed review without the floor of 1.3
FailedReviewNoFloor(card) ==
    [card EXCEPT !.interval = 1,
                 !.easeFactor = card.easeFactor - 20,
                 !.repetitions = 0]

\* failed review that leaves the interval as it was
FailedReviewKeepsInterval(card) ==
    [card EXCEPT !.easeFactor = Max(130, card.easeFactor - 20),
                 !.repetitions = 0]

\* failed review that takes less ease from a card tagged easy
FailedReviewSparingEasy(card) ==
    [card EXCEPT !.interval = 1,
                 !.easeFactor = Max(130, card.easeFactor
                                         - (IF card.difficulty = "easy" THEN 10 ELSE 20)),
                 !.repetitions = 0]

\* failed review: reset
FailedReview(card) ==
    [card EXCEPT !.interval = 1,
                 !.easeFactor = Max(130, card.easeFactor - 20),
                 !.repetitions = 0]

\* the intervals of the original SM-2: six days for the second repetition
SuccessIntervalSixDays(card, repetitions) ==
    IF repetitions = 1 THEN 1
    ELSE IF repetitions = 2 THEN 6
    ELSE RoundHundredths(card.interval * card.easeFactor)

\* interval of a successful review, repetitions already incremented
SuccessInterval(card, repetitions) ==
    IF repetitions = 1 THEN 1
    ELSE IF repetitions = 2 THEN 3
    ELSE RoundHundredths(card.interval * card.easeFactor)

\* ease factor of a successful review, in hundredths
SuccessEase(easeFactor, q) ==
    Max(130, easeFactor + 10 - (5 - q) * (8 + (5 - q) * 2))

\* successful review: apply SM-2
SuccessfulReview(card, q) ==
    [card EXCEPT !.repetitions = card.repetitions + 1,
                 !.interval = SuccessInterval(card, card.repetitions + 1),
                 !.easeFactor = SuccessEase(card.easeFactor, q)]

\* a good review makes the card medium, an easy card too
DifficultyAfterAlwaysMedium(difficulty, q) ==
    IF q <= 2 THEN "hard"
    ELSE IF q >= 4 THEN "medium"
    ELSE difficulty

\* difficulty tag after a review of quality q
DifficultyAfter(difficulty, q) ==
    IF q <= 2 THEN "hard"
    ELSE IF q >= 4 THEN (IF difficulty = "easy" THEN "easy" ELSE "medium")
    ELSE difficulty

\* the interval added to the clock without the conversion from days
NextReviewAtNoDays(t, interval) == t + interval

\* next-review timestamp: now + interval days
NextReviewAt(t, interval) == t + interval * DayLength

\* the card recordReview passes to updateFlashcard, q already clamped
ScheduledCard(card, q, t) ==
    LET c == IF q < 3 THEN FailedReview(card) ELSE SuccessfulReview(card, q)
    IN  [c EXCEPT !.lastReview = t,
                  !.nextReview = NextReviewAt(t, c.interval),
                  !.difficulty = DifficultyAfter(card.difficulty, q)]

\* a review that counts itself in the statistics before it looks the card up
recordReviewInCountingFirst(cs, st, cardId, quality, t) ==
    LET i == getFlashcardIn(cs, cardId)
        q == Clamp(quality)
    IN  IF i = 0
        THEN [found |-> FALSE, cards |-> cs, stats |-> StatsAfterReview(st, q),
              card |-> null]
        ELSE LET card == ScheduledCard(cs[i], q, t)
                 written == updateFlashcardIn(cs, cardId, card)
             IN  [found |-> TRUE, cards |-> written, stats |-> StatsAfterReview(st, q),
                  card |-> written[i]]

\* recordReview(cardId, quality) on the collections cs and st at time t:
\* the collections it leaves and the value it returns (found = FALSE is null)
recordReviewIn(cs, st, cardId, quality, t) ==
    LET i == getFlashcardIn(cs, cardId)
        q == Clamp(quality)
    IN  IF i = 0
        THEN [found |-> FALSE, cards |-> cs, stats |-> st, card |-> null]
        ELSE LET card == ScheduledCard(cs[i], q, t)
                 written == updateFlashcardIn(cs, cardId, card)
             IN  [found |-> TRUE, cards |-> written, stats |-> StatsAfterReview(st, q),
                  card |-> written[i]]

\* a review the bounds of the model admit
ReviewInBounds(cardId) ==
    LET i == getFlashcardIn(getFlashcards(0), cardId)
    IN  /\ getStats.totalReviews < MaxReviews
        /\ i # 0 => getFlashcards(0)[i].repetitions < MaxReviews

\* a session score the bounds of the model admit
ScoreInBounds == studySession # null => studySession.score < MaxReviews

\* what recordReview returns: the card as written, or null
recordReviewResult(cardId, quality) ==
    recordReviewIn(getFlashcards(0), getStats, cardId, quality, now).card

recordReview(cardId, quality) ==
    LET r == recordReviewIn(getFlashcards(0), getStats, cardId, quality, now)
    IN  /\ lsFlashcards' = IF r.found THEN r.cards ELSE lsFlashcards
        \* updateStats is called where the review is counted
        /\ lsStats' = IF r.stats = getStats THEN lsStats ELSE r.stats
        /\ UNCHANGED <<lsDecks, issued>>

(* ------------------------------ useAppStore ---------------------------- *)

\* slice(0, 30) of the shuffled cards in test mode
TestLimit == 30

\* orders in which a card may stand in for another one
ShufflesWithRepeats(cs) ==
    {[i \in 1..Len(cs) |-> cs[p[i]]] : p \in [1..Len(cs) -> 1..Len(cs)]}

\* the orders [...cs].sort(() => Math.random() - 0.5) can leave
Shuffles(cs) ==
    LET n == Len(cs)
        perms == {p \in [1..n -> 1..n] : \A i, j \in 1..n : p[i] = p[j] => i = j}
    IN  {[i \in 1..n |-> cs[p[i]]] : p \in perms}

\* slice(0, 30)
TestSlice(cs) == SubSeq(cs, 1, Min(TestLimit, Len(cs)))

\* review mode over every due card, whatever its difficulty
WorkingSetsAllDue(deckId, mode) ==
    LET base == IF mode = "review" THEN getCardsDueForReview(deckId)
                ELSE getFlashcards(deckId)
    IN  IF mode = "test"
        THEN {TestSlice(sh) : sh \in Shuffles(base)}
        ELSE {base}

\* the working sets startStudySession can build
WorkingSets(deckId, mode) ==
    LET base == IF mode = "review"
                THEN SelectSeq(getCardsDueForReview(deckId),
                               LAMBDA c : c.difficulty = "hard")
                ELSE getFlashcards(deckId)
    IN  IF mode = "test"
        THEN {TestSlice(sh) : sh \in Shuffles(base)}
        ELSE {base}

\* a session that takes over the position of the one in progress
NewSessionKeepsIndex(deckId, cards, mode, t) ==
    [deckId |-> deckId, cards |-> cards,
     currentIndex |-> IF studySession = null THEN 0 ELSE studySession.currentIndex,
     mode |-> mode, startTime |-> t, score |-> 0]

NewSession(deckId, cards, mode, t) ==
    [deckId |-> deckId, cards |-> cards, currentIndex |-> 0, mode |-> mode,
     startTime |-> t, score |-> 0]

\* the session moveToNextCard leaves: the index moves while a card follows
moveToNextCardIn(session) ==
    IF session # null /\ session.currentIndex + 1 < Len(session.cards)
    THEN [session EXCEPT !.currentIndex = session.currentIndex + 1]
    ELSE session

\* a review that also moves to the next card
SessionAfterReviewAdvancing(session, quality) ==
    IF session = null THEN session
    ELSE [session EXCEPT !.score = IF quality >= 3 THEN session.score + 1
                                   ELSE session.score,
                         !.currentIndex = session.currentIndex + 1]

\* the session recordCardReview leaves: the score counts quality >= 3
SessionAfterReview(session, quality) ==
    IF session = null THEN session
    ELSE [session EXCEPT !.score = IF quality >= 3 THEN session.score + 1
                                   ELSE session.score]

\* the in-memory card list after merging the reviewed card into it
FlashcardsAfterReview(fs, cardId, updated) ==
    MapSeq(fs, LAMBDA c : IF c.id = cardId THEN Merge(c, updated) ELSE c)

\* a review that writes the session's copy of a card the store has lost
recordCardReviewInRestoring(cs, st, fs, session, cardId, quality, t) ==
    LET r == recordReviewIn(cs, st, cardId, quality, t)
        held == IF session = null THEN <<>>
                ELSE SelectSeq(session.cards, LAMBDA c : c.id = cardId)
    IN  [cards |-> IF r.found THEN updateFlashcardIn(r.cards, cardId, r.card)
                   ELSE r.cards \o held,
         stats |-> r.stats,
         flashcards |-> IF r.found THEN FlashcardsAfterReview(fs, cardId, r.card)
                        ELSE fs,
         session |-> SessionAfterReview(session, quality)]

\* recordCardReview(cardId, quality) on store collections cs, st, the
\* in-memory cards fs and the session, at time t: everything it leaves
recordCardReviewIn(cs, st, fs, session, cardId, quality, t) ==
    LET r == recordReviewIn(cs, st, cardId, quality, t)
    IN  [cards |-> IF r.found THEN updateFlashcardIn(r.cards, cardId, r.card)
                   ELSE r.cards,
         stats |-> r.stats,
         flashcards |-> IF r.found THEN FlashcardsAfterReview(fs, cardId, r.card)
                        ELSE fs,
         session |-> SessionAfterReview(session, quality)]

recordCardReview(cardId, quality) ==
    LET r == recordCardReviewIn(getFlashcards(0), getStats, flashcards,
                                studySession, cardId, quality, now)
    IN  /\ lsFlashcards' = r.cards
        /\ lsStats' = r.stats
        /\ flashcards' = r.flashcards
        /\ studySession' = r.session
        /\ UNCHANGED <<lsDecks, issued>>

(* ------------------------------- actions ------------------------------- *)

\* StudyView after its first render: no countdown, no session seen
ViewInit ==
    /\ cardTimeLeft = 0
    /\ timer = FALSE
    /\ seenIndex = Absent
    /\ seenTimeLeft = 0
    /\ sessionSet = FALSE

Init ==
    /\ lsDecks = <<>>
    /\ lsFlashcards = <<>>
    /\ lsStats = ZeroStats
    /\ issued = <<>>
    /\ now = 1
    /\ decks = <<>>
    /\ selectedDeckId = 0
    /\ flashcards = <<>>
    /\ studySession = null
    /\ stats = ZeroStats
    /\ ViewInit
    /\ thrown = FALSE

\* time passes
Tick ==
    /\ now < MaxNow
    /\ now' = now + 1
    /\ UNCHANGED <<viewVars, thrown, lsDecks, lsFlashcards, lsStats, issued, appVars>>

\* calls on the StorageService
StoreCreateDeck ==
    \E name \in NewNames :
        /\ createDeck(name)
        /\ thrown' = FALSE
        /\ UNCHANGED <<viewVars, now, appVars>>

StoreUpdateDeck ==
    \E deckId \in DeckIds, updates \in DeckUpdates :
        /\ updateDeck(deckId, updates)
        /\ thrown' = FALSE
        /\ UNCHANGED <<viewVars, now, appVars>>

StoreDeleteDeck ==
    \E deckId \in DeckIds :
        /\ deleteDeck(deckId)
        /\ thrown' = FALSE
        /\ UNCHANGED <<viewVars, now, appVars>>

StoreCreateFlashcard ==
    \E deckId \in DeckIds, difficulty \in Difficulties :
        /\ createFlashcard(deckId, difficulty)
        /\ thrown' = FALSE
        /\ UNCHANGED <<viewVars, now, appVars>>

\* createFlashcard without a difficulty: the parameter's default
StoreCreateFlashcardDefault ==
    \E deckId \in DeckIds :
        /\ createFlashcard(deckId, "medium")
        /\ thrown' = FALSE
        /\ UNCHANGED <<viewVars, now, appVars>>

StoreUpdateFlashcard ==
    \E cardId \in CardIds, updates \in CardUpdates :
        /\ updateFlashcard(cardId, updates)
        /\ thrown' = FALSE
        /\ UNCHANGED <<viewVars, now, appVars>>

StoreDeleteFlashcard ==
    \E cardId \in CardIds :
        /\ deleteFlashcard(cardId)
        /\ thrown' = FALSE
        /\ UNCHANGED <<viewVars, now, appVars>>

StoreDeleteAllFlashcardsInDeck ==
    \E deckId \in DeckIds :
        /\ deleteAllFlashcardsInDeck(deckId)
        /\ thrown' = FALSE
        /\ UNCHANGED <<viewVars, now, appVars>>

\* importData of a snapshot exportData returned, whole or with some of its
\* collections left out: the snapshot of the store as it is now, or the one
\* a fresh installation exports
ImportData ==
    \E data \in {exportData, EmptySnapshot},
       keys \in SUBSET {"decks", "flashcards", "stats"} :
        /\ importData(data, keys)
        /\ thrown' = FALSE
        /\ UNCHANGED <<viewVars, now, appVars>>

\* a backup made with Export JSON is brought back with Import JSON, whole or
\* with some of its collections taken out of the file
RestoreBackup ==
    \E keys \in SUBSET {"decks", "flashcards", "stats"} :
        /\ importData(exportData, keys)
        /\ thrown' = FALSE
        /\ UNCHANGED <<viewVars, now, appVars>>

\* the two stored cards are reviewed one after the other with the same
\* quality, at the same time
RecordReviewOfBoth ==
    \E quality \in Qualities :
        LET cs == getFlashcards(0)
            first == recordReviewIn(cs, getStats, cs[1].id, quality, now)
            second == recordReviewIn(first.cards, first.stats, cs[2].id, quality, now)
        IN  /\ Len(cs) = 2
            /\ getStats.totalReviews < 2 * MaxReviews
            /\ cs[1].repetitions < MaxReviews
            /\ cs[2].repetitions < MaxReviews
            /\ lsFlashcards' = second.cards
            /\ lsStats' = second.stats
            /\ thrown' = FALSE
            /\ UNCHANGED <<lsDecks, issued, viewVars, now, appVars>>

ClearAllData ==
    /\ clearAllData
    /\ thrown' = FALSE
    /\ UNCHANGED <<viewVars, now, appVars>>

\* a call on the scheduler
RecordReview ==
    \E cardId \in CardIds, quality \in Qualities :
        /\ ReviewInBounds(cardId)
        /\ recordReview(cardId, quality)
        /\ thrown' = FALSE
        /\ UNCHANGED <<viewVars, now, appVars>>

\* actions of the application store
LoadDecks ==
    /\ decks' = getDecks
    /\ UNCHANGED <<viewVars, thrown, lsDecks, lsFlashcards, lsStats, issued, now,
                   flashcards, selectedDeckId, studySession, stats>>

AppCreateDeck ==
    \E name \in NewNames :
        /\ createDeck(name)
        /\ decks' = Append(decks, NewDeck(generateId, name))
        /\ thrown' = FALSE
        /\ UNCHANGED <<viewVars, now, flashcards, selectedDeckId, studySession, stats>>

AppDeleteDeck ==
    \E deckId \in DeckIds :
        /\ deleteDeck(deckId)
        /\ decks' = SelectSeq(decks, LAMBDA d : d.id # deckId)
        /\ selectedDeckId' = IF selectedDeckId = deckId THEN 0 ELSE selectedDeckId
        /\ thrown' = FALSE
        /\ UNCHANGED <<viewVars, now, flashcards, studySession, stats>>

LoadFlashcards ==
    \E deckId \in DeckIds \cup {0} :
        /\ flashcards' = getFlashcards(deckId)
        /\ UNCHANGED <<viewVars, thrown, lsDecks, lsFlashcards, lsStats, issued, now,
                       decks, selectedDeckId, studySession, stats>>

SelectDeck ==
    \E deckId \in DeckIds \cup {0} :
        /\ selectedDeckId' = deckId
        /\ flashcards' = IF deckId # 0 THEN getFlashcards(deckId) ELSE flashcards
        /\ UNCHANGED <<viewVars, thrown, lsDecks, lsFlashcards, lsStats, issued, now,
                       decks, studySession, stats>>

AddFlashcard ==
    \E deckId \in DeckIds, difficulty \in Difficulties :
        /\ createFlashcard(deckId, difficulty)
        /\ flashcards' = Append(flashcards, NewCard(generateId, deckId, difficulty))
        /\ decks' = MapSeq(decks, LAMBDA d :
                        IF d.id = deckId THEN Merge(d, [cardCount |-> d.cardCount + 1])
                        ELSE d)
        /\ thrown' = FALSE
        /\ UNCHANGED <<viewVars, now, selectedDeckId, studySession, stats>>

AppDeleteFlashcard ==
    \E cardId \in CardIds :
        /\ deleteFlashcard(cardId)
        /\ flashcards' = SelectSeq(flashcards, LAMBDA c : c.id # cardId)
        /\ thrown' = FALSE
        /\ UNCHANGED <<viewVars, now, decks, selectedDeckId, studySession, stats>>

AppUpdateFlashcard ==
    \E cardId \in CardIds, updates \in CardUpdates :
        /\ updateFlashcard(cardId, updates)
        /\ flashcards' = MapSeq(flashcards, LAMBDA c :
                             IF c.id = cardId THEN Merge(c, updates) ELSE c)
        /\ thrown' = FALSE
        /\ UNCHANGED <<viewVars, now, decks, selectedDeckId, studySession, stats>>

StartStudySession ==
    \E deckId \in DeckIds, mode \in Modes :
        \E cards \in WorkingSets(deckId, mode) :
            /\ studySession' = NewSession(deckId, cards, mode, now)
            /\ UNCHANGED <<viewVars, thrown, lsDecks, lsFlashcards, lsStats, issued, now,
                           decks, flashcards, selectedDeckId, stats>>

EndStudySession ==
    /\ studySession' = null
    /\ UNCHANGED <<viewVars, thrown, lsDecks, lsFlashcards, lsStats, issued, now,
                   decks, flashcards, selectedDeckId, stats>>

MoveToNextCard ==
    /\ studySession' = moveToNextCardIn(studySession)
    /\ UNCHANGED <<viewVars, thrown, lsDecks, lsFlashcards, lsStats, issued, now,
                   decks, flashcards, selectedDeckId, stats>>

RecordCardReview ==
    \E cardId \in CardIds, quality \in Qualities :
        /\ ReviewInBounds(cardId)
        /\ ScoreInBounds
        /\ recordCardReview(cardId, quality)
        /\ thrown' = FALSE
        /\ UNCHANGED <<viewVars, now, decks, selectedDeckId, stats>>

LoadStats ==
    /\ stats' = getStats
    /\ UNCHANGED <<viewVars, thrown, lsDecks, lsFlashcards, lsStats, issued, now,
                   decks, flashcards, selectedDeckId, studySession>>

\* StudyView: the countdown of test mode, its two effects and its buttons

\* setCardTimeLeft(30)
CardTime == 30

\* studySession?.currentIndex
IndexOf(session) == IF session = null THEN Absent ELSE session.currentIndex

\* studySession && studySession.mode === 'test'
TestRunning(session) == session # null /\ session.mode = "test"

\* studySession.cards[studySession.currentIndex] is a card
HasCurrent(session) == session # null /\ session.currentIndex < Len(session.cards)

Current(session) == session.cards[session.currentIndex + 1]

\* a value the component reads has changed since it last rendered
NeedsRender == sessionSet \/ cardTimeLeft # seenTimeLeft

\* recordCardReview(cardId, quality) with no moveToNextCard() after it
reviewWithoutMove(cardId, quality) ==
    LET r == recordCardReviewIn(getFlashcards(0), getStats, flashcards,
                                studySession, cardId, quality, now)
    IN  /\ lsFlashcards' = r.cards
        /\ lsStats' = r.stats
        /\ flashcards' = r.flashcards
        /\ studySession' = r.session
        /\ UNCHANGED <<lsDecks, issued>>

\* recordCardReview(cardId, quality); moveToNextCard()
reviewAndMove(cardId, quality) ==
    LET r == recordCardReviewIn(getFlashcards(0), getStats, flashcards,
                                studySession, cardId, quality, now)
    IN  /\ lsFlashcards' = r.cards
        /\ lsStats' = r.stats
        /\ flashcards' = r.flashcards
        /\ studySession' = moveToNextCardIn(r.session)
        /\ UNCHANGED <<lsDecks, issued>>

\* the second effect fails the current card: test mode, no time left
Expired(session, timeLeft) ==
    /\ TestRunning(session)
    /\ timeLeft = 0
    /\ Len(session.cards) > 0
    /\ HasCurrent(session)

\* a render of StudyView and the effects that follow it, both reading the
\* values of this render: the first, on a new card index, restarts the
\* countdown; the second clears the timeout, schedules the next one while
\* time is left, and at 0 fails the current card and moves on
Render ==
    /\ NeedsRender
    /\ seenIndex' = IndexOf(studySession)
    /\ seenTimeLeft' = cardTimeLeft
    /\ cardTimeLeft' = IF IndexOf(studySession) # seenIndex /\ TestRunning(studySession)
                       THEN CardTime
                       ELSE cardTimeLeft
    /\ timer' = (TestRunning(studySession) /\ cardTimeLeft > 0)
    /\ IF Expired(studySession, cardTimeLeft)
       THEN /\ ReviewInBounds(Current(studySession).id)
            /\ reviewAndMove(Current(studySession).id, 0)
            /\ sessionSet' = TRUE
       ELSE /\ sessionSet' = FALSE
            /\ UNCHANGED <<lsDecks, lsFlashcards, lsStats, issued,
                           flashcards, studySession>>
    /\ UNCHANGED <<now, decks, selectedDeckId, stats, thrown>>

\* the timeout fires: setCardTimeLeft(v => Math.max(0, v - 1))
Timeout ==
    /\ ~NeedsRender
    /\ timer
    /\ cardTimeLeft' = Max(0, cardTimeLeft - 1)
    /\ timer' = FALSE
    /\ UNCHANGED <<lsDecks, lsFlashcards, lsStats, issued, now, appVars,
                   seenIndex, seenTimeLeft, sessionSet, thrown>>

\* Start, shown while no session is in progress:
\* startStudySession(selectedDeckId, mode)
ViewStart ==
    /\ ~NeedsRender
    /\ studySession = null
    /\ selectedDeckId # 0
    /\ \E mode \in Modes :
           \E cards \in WorkingSets(selectedDeckId, mode) :
               studySession' = NewSession(selectedDeckId, cards, mode, now)
    /\ sessionSet' = TRUE
    /\ UNCHANGED <<lsDecks, lsFlashcards, lsStats, issued, now,
                   decks, flashcards, selectedDeckId, stats,
                   cardTimeLeft, timer, seenIndex, seenTimeLeft, thrown>>

\* an End Session that leaves the session in place
ViewEndKeepsSession ==
    /\ ~NeedsRender
    /\ studySession # null
    /\ sessionSet' = TRUE
    /\ UNCHANGED <<lsDecks, lsFlashcards, lsStats, issued, now, appVars,
                   cardTimeLeft, timer, seenIndex, seenTimeLeft, thrown>>

\* endStudySession(), the call of the End Session button, on any session
ViewEnd ==
    /\ ~NeedsRender
    /\ studySession # null
    /\ studySession' = null
    /\ sessionSet' = TRUE
    /\ UNCHANGED <<lsDecks, lsFlashcards, lsStats, issued, now,
                   decks, flashcards, selectedDeckId, stats,
                   cardTimeLeft, timer, seenIndex, seenTimeLeft, thrown>>

\* Skip: moveToNextCard()
ViewSkip ==
    /\ ~NeedsRender
    /\ HasCurrent(studySession)
    /\ studySession' = moveToNextCardIn(studySession)
    /\ sessionSet' = (studySession' # studySession)
    /\ UNCHANGED <<lsDecks, lsFlashcards, lsStats, issued, now,
                   decks, flashcards, selectedDeckId, stats,
                   cardTimeLeft, timer, seenIndex, seenTimeLeft, thrown>>

\* a rating button of the current card: onRate(q), q in 1..5
ViewRate ==
    /\ ~NeedsRender
    /\ HasCurrent(studySession)
    /\ ReviewInBounds(Current(studySession).id)
    /\ ScoreInBounds
    /\ \E quality \in 1..5 : reviewAndMove(Current(studySession).id, quality)
    /\ sessionSet' = TRUE
    /\ UNCHANGED <<now, decks, selectedDeckId, stats,
                   cardTimeLeft, timer, seenIndex, seenTimeLeft, thrown>>

\* calls on the record store during which a write fails
FailingDeleteDeck ==
    \E deckId \in DeckIds, failAt \in 1..2 :
        /\ failingDeleteDeck(deckId, failAt)
        /\ UNCHANGED <<viewVars, now, appVars>>

FailingCreateFlashcard ==
    \E deckId \in DeckIds, difficulty \in Difficulties, failAt \in 1..2 :
        /\ failingCreateFlashcard(deckId, difficulty, failAt)
        /\ UNCHANGED <<viewVars, now, appVars>>

FailingDeleteFlashcard ==
    \E cardId \in CardIds, failAt \in 1..2 :
        /\ failingDeleteFlashcard(cardId, failAt)
        /\ UNCHANGED <<viewVars, now, appVars>>

FailingDeleteAllFlashcardsInDeck ==
    \E deckId \in DeckIds, failAt \in 1..2 :
        /\ failingDeleteAllFlashcardsInDeck(deckId, failAt)
        /\ UNCHANGED <<viewVars, now, appVars>>

FailingImportData ==
    \E data \in {exportData, EmptySnapshot},
       keys \in SUBSET {"decks", "flashcards", "stats"}, failAt \in 1..3 :
        /\ failingImportData(data, keys, failAt)
        /\ UNCHANGED <<viewVars, now, appVars>>

Next ==
    \/ Tick
    \/ StoreCreateDeck
    \/ StoreUpdateDeck
    \/ StoreDeleteDeck
    \/ StoreCreateFlashcard
    \/ StoreCreateFlashcardDefault
    \/ StoreUpdateFlashcard
    \/ StoreDeleteFlashcard
    \/ StoreDeleteAllFlashcardsInDeck
    \/ ImportData
    \/ RecordReview
    \/ LoadDecks
    \/ AppCreateDeck
    \/ AppDeleteDeck
    \/ LoadFlashcards
    \/ SelectDeck
    \/ AddFlashcard
    \/ AppDeleteFlashcard
    \/ AppUpdateFlashcard
    \/ StartStudySession
    \/ EndStudySession
    \/ MoveToNextCard
    \/ RecordCardReview
    \/ LoadStats
    \/ ViewStart
    \/ ViewEnd
    \/ ViewSkip
    \/ ViewRate
    \/ Timeout
    \/ Render
    \/ FailingDeleteDeck
    \/ FailingCreateFlashcard
    \/ FailingDeleteFlashcard
    \/ FailingDeleteAllFlashcardsInDeck
    \/ FailingImportData
    \/ ClearAllData
    \/ RestoreBackup
    \/ RecordReviewOfBoth

Spec == Init /\ [][Next]_vars

\* the scheduler on cards of the store: createDeck, createCard, recordReview
NextScheduler ==
    \/ Tick
    \/ StoreCreateDeck
    \/ StoreCreateFlashcardDefault
    \/ RecordReview

SpecScheduler == Init /\ [][NextScheduler]_vars

\* the scheduler applied to any one card: the store holds a deck with a card
\* whose scheduling fields are drawn from the values below, reviewed once
\* before (at the start of the clock) or never
IntervalInputs == {1, 3, 10}
EaseInputs == {130, 140, 200, 250}

InitReview ==
    /\ lsDecks = <<[id |-> 1, name |-> "a", cardCount |-> 1]>>
    /\ \E interval \in IntervalInputs, easeFactor \in EaseInputs,
          repetitions \in 0..(MaxReviews - 1), difficulty \in Difficulties,
          reviewed \in BOOLEAN :
           lsFlashcards =
               <<[id |-> 2, deckId |-> 1, difficulty |-> difficulty,
                  interval |-> interval, easeFactor |-> easeFactor,
                  repetitions |-> repetitions,
                  lastReview |-> IF reviewed THEN 1 ELSE Absent,
                  nextReview |-> IF reviewed THEN NextReviewAt(1, interval)
                                 ELSE Absent]>>
    /\ lsStats = ZeroStats
    /\ issued = <<"deck", "card">>
    /\ now = 1
    /\ decks = <<>>
    /\ selectedDeckId = 0
    /\ flashcards = <<>>
    /\ studySession = null
    /\ stats = ZeroStats
    /\ ViewInit
    /\ thrown = FALSE

NextReview ==
    \/ Tick
    \/ RecordReview

SpecReview == InitReview /\ [][NextReview]_vars

\* the same store, with cards created next to the one it holds
NextCreateReview ==
    \/ StoreCreateFlashcardDefault
    \/ RecordReview

SpecCreateReview == InitReview /\ [][NextCreateReview]_vars

\* creating and deleting in the store
NextCrud ==
    \/ StoreCreateDeck
    \/ StoreCreateFlashcard
    \/ StoreDeleteFlashcard
    \/ StoreDeleteAllFlashcardsInDeck
    \/ StoreDeleteDeck

SpecCrud == Init /\ [][NextCrud]_vars

\* every operation of the store
NextStore ==
    \/ StoreCreateDeck
    \/ StoreUpdateDeck
    \/ StoreDeleteDeck
    \/ StoreCreateFlashcard
    \/ StoreUpdateFlashcard
    \/ StoreDeleteFlashcard
    \/ StoreDeleteAllFlashcardsInDeck
    \/ ImportData

SpecStore == Init /\ [][NextStore]_vars

\* reviews through the scheduler and through a study session, on a store
\* that holds one deck with two new cards, one easy and one hard
InitStocked ==
    /\ lsDecks = <<[id |-> 1, name |-> "a", cardCount |-> 2]>>
    /\ lsFlashcards = <<NewCard(2, 1, "easy"), NewCard(3, 1, "hard")>>
    /\ lsStats = ZeroStats
    /\ issued = <<"deck", "card", "card">>
    /\ now = 1
    /\ decks = <<>>
    /\ selectedDeckId = 0
    /\ flashcards = <<>>
    /\ studySession = null
    /\ stats = ZeroStats
    /\ ViewInit
    /\ thrown = FALSE

NextSession ==
    \/ RecordReview
    \/ StartStudySession
    \/ EndStudySession
    \/ MoveToNextCard
    \/ RecordCardReview

SpecSession == InitStocked /\ [][NextSession]_vars

\* StudyView over a selected deck with two new cards, one easy and one hard
InitStudy ==
    /\ lsDecks = <<[id |-> 1, name |-> "a", cardCount |-> 2]>>
    /\ lsFlashcards = <<NewCard(2, 1, "easy"), NewCard(3, 1, "hard")>>
    /\ lsStats = ZeroStats
    /\ issued = <<"deck", "card", "card">>
    /\ now = 1
    /\ decks = lsDecks
    /\ selectedDeckId = 1
    /\ flashcards = lsFlashcards
    /\ studySession = null
    /\ stats = ZeroStats
    /\ ViewInit
    /\ thrown = FALSE

NextStudy ==
    \/ ViewStart
    \/ ViewEnd
    \/ ViewSkip
    \/ ViewRate
    \/ Timeout
    \/ Render

SpecStudy == InitStudy /\ [][NextStudy]_vars

\* the record store with writes that can fail
NextFaulty ==
    \/ StoreCreateDeck
    \/ StoreCreateFlashcard
    \/ FailingDeleteDeck
    \/ FailingCreateFlashcard
    \/ FailingDeleteFlashcard
    \/ FailingDeleteAllFlashcardsInDeck
    \/ FailingImportData

SpecFaulty == Init /\ [][NextFaulty]_vars

\* updates, deletions and reviews by id, on the store of one deck and two cards
NextLookup ==
    \/ StoreUpdateDeck
    \/ StoreUpdateFlashcard
    \/ StoreDeleteFlashcard
    \/ RecordReview

SpecLookup == InitStocked /\ [][NextLookup]_vars

\* the record store and the scheduler started on a localStorage of which
\* each key holds the stored collection, nothing, or a text that is not JSON
InitDamaged ==
    /\ lsDecks \in {<<[id |-> 1, name |-> "a", cardCount |-> 2]>>, Missing, Unparsable}
    /\ lsFlashcards \in {<<NewCard(2, 1, "easy"), NewCard(3, 1, "hard")>>,
                          Missing, Unparsable}
    /\ lsStats \in {ZeroStats, MissingStats, UnparsableStats}
    /\ issued = <<"deck", "card", "card">>
    /\ now = 1
    /\ decks = <<>>
    /\ selectedDeckId = 0
    /\ flashcards = <<>>
    /\ studySession = null
    /\ stats = ZeroStats
    /\ ViewInit
    /\ thrown = FALSE

NextDamaged ==
    \/ ClearAllData
    \/ StoreCreateDeck
    \/ StoreUpdateDeck
    \/ StoreDeleteDeck
    \/ StoreCreateFlashcardDefault
    \/ StoreDeleteFlashcard
    \/ StoreDeleteAllFlashcardsInDeck
    \/ RecordReview

SpecDamaged == InitDamaged /\ [][NextDamaged]_vars

\* backups of a store that is reviewed and changed, on a localStorage of
\* which each key holds the stored collection, nothing, or a text that is
\* not JSON
NextBackup ==
    \/ RestoreBackup
    \/ StoreCreateDeck
    \/ StoreDeleteFlashcard
    \/ RecordReview

SpecBackup == InitDamaged /\ [][NextBackup]_vars

\* the easy card and the hard card of the stocked store, alike in all but
\* the tag, reviewed together as time passes
NextTwins ==
    \/ Tick
    \/ RecordReviewOfBoth

SpecTwins == InitStocked /\ [][NextTwins]_vars

\* the stocked store after a good review of its first card, a failed review
\* of its second and the deletion of the second
InitReviewed ==
    LET cs == <<NewCard(2, 1, "easy"), NewCard(3, 1, "hard")>>
        first == recordReviewIn(cs, ZeroStats, 2, 4, 1)
        second == recordReviewIn(first.cards, first.stats, 3, 1, 1)
    IN  /\ lsDecks = <<[id |-> 1, name |-> "a", cardCount |-> 1]>>
        /\ lsFlashcards = SelectSeq(second.cards, LAMBDA c : c.id # 3)
        /\ lsStats = second.stats
        /\ issued = <<"deck", "card", "card">>
        /\ now = 1
        /\ decks = <<>>
        /\ selectedDeckId = 0
        /\ flashcards = <<>>
        /\ studySession = null
        /\ stats = ZeroStats
        /\ ViewInit
        /\ thrown = FALSE

\* every operation of the store and of the session but the reviews
NextFrame ==
    \/ StoreCreateDeck
    \/ StoreUpdateDeck
    \/ StoreDeleteDeck
    \/ StoreCreateFlashcardDefault
    \/ StoreUpdateFlashcard
    \/ StoreDeleteFlashcard
    \/ StoreDeleteAllFlashcardsInDeck
    \/ StartStudySession
    \/ MoveToNextCard
    \/ EndStudySession

SpecFrame == InitReviewed /\ [][NextFrame]_vars

\* a store of one deck with one new card, after a second card was created
\* and deleted again
InitOneCard ==
    /\ lsDecks = <<[id |-> 1, name |-> "a", cardCount |-> 1]>>
    /\ lsFlashcards = <<NewCard(2, 1, "easy")>>
    /\ lsStats = ZeroStats
    /\ issued = <<"deck", "card", "card">>
    /\ now = 1
    /\ decks = <<>>
    /\ selectedDeckId = 0
    /\ flashcards = <<>>
    /\ studySession = null
    /\ stats = ZeroStats
    /\ ViewInit
    /\ thrown = FALSE

\* a study session interleaved with creations and deletions in the store
NextInterleaved ==
    \/ StartStudySession
    \/ MoveToNextCard
    \/ RecordCardReview
    \/ StoreCreateFlashcardDefault
    \/ StoreDeleteFlashcard
    \/ StoreDeleteDeck

SpecInterleaved == InitOneCard /\ [][NextInterleaved]_vars

\* the deck and card actions of the application store
NextApp ==
    \/ LoadDecks
    \/ AppCreateDeck
    \/ AddFlashcard
    \/ AppDeleteFlashcard
    \/ AppDeleteDeck

SpecApp == Init /\ [][NextApp]_vars

\* one session of the study view, rated or left to the countdown, while cards
\* and decks are deleted from the store
NextStudyDeleting ==
    \/ ViewStart
    \/ ViewRate
    \/ Timeout
    \/ Render
    \/ StoreDeleteFlashcard
    \/ StoreDeleteAllFlashcardsInDeck
    \/ StoreDeleteDeck

SpecStudyDeleting == InitStudy /\ [][NextStudyDeleting]_vars

(* ------------------------------ properties ----------------------------- *)

\* the quality a review is meant to count: the value brought into 0..5
ClampedTo05(quality) == IF quality < 0 THEN 0 ELSE IF quality > 5 THEN 5 ELSE quality

\* position of the card with this id in the store, 0 if there is none
StoredAt(cardId) ==
    IF \E i \in DOMAIN lsFlashcards : lsFlashcards[i].id = cardId
    THEN CHOOSE i \in DOMAIN lsFlashcards : lsFlashcards[i].id = cardId
    ELSE 0

AnyId == Ids \cup {NoSuchId}

\* ids of the cards in the store
StoredIds == {lsFlashcards[i].id : i \in DOMAIN lsFlashcards}

\* C1: after any sequence of createCard and recordReview calls, with any
\* quality, every stored card has easeFactor >= 1.3, interval >= 1 and
\* repetitions >= 0.
C1_SchedulingFieldsInRange ==
    \A i \in DOMAIN lsFlashcards :
        /\ lsFlashcards[i].easeFactor >= 130
        /\ lsFlashcards[i].interval >= 1
        /\ lsFlashcards[i].repetitions >= 0

\* a card created in this run next to a card that failed a review and sits
\* on the ease-factor floor
C1_Witness ==
    /\ Len(lsFlashcards) = 2
    /\ lsStats.totalReviews >= 1
    /\ \E i \in DOMAIN lsFlashcards :
           /\ lsFlashcards[i].easeFactor = 130
           /\ lsFlashcards[i].repetitions = 0
           /\ lsFlashcards[i].lastReview = now

\* C2: a review with clamped quality >= 3 adds one to repetitions, sets the
\* interval to 1 for the first repetition, to 3 for the second and otherwise
\* to round(old interval * old ease factor), and sets the ease factor to
\* max(1.3, old + 0.1 - (5 - q) * (0.08 + (5 - q) * 0.02)).
C2_SuccessfulReview ==
    [][\A cardId \in AnyId, quality \in Qualities :
          LET i == StoredAt(cardId)
              q == ClampedTo05(quality)
          IN  (i # 0 /\ q >= 3 /\ recordReview(cardId, quality)) =>
                  LET old == lsFlashcards[i]
                      new == lsFlashcards'[i]
                      product == old.interval * old.easeFactor
                      ease == old.easeFactor + 10 - (5 - q) * (8 + (5 - q) * 2)
                  IN  /\ new.repetitions = old.repetitions + 1
                      /\ new.repetitions = 1 => new.interval = 1
                      /\ new.repetitions = 2 => new.interval = 3
                      /\ new.repetitions > 2 =>
                             /\ 100 * new.interval - 50 <= product
                             /\ product < 100 * new.interval + 50
                      /\ new.easeFactor = IF ease < 130 THEN 130 ELSE ease]_vars

\* the new card rated 5, 4, 3: repetitions 3, interval round(3 * 2.6) = 8,
\* ease factor 2.6 - 0.14
C2_Witness ==
    /\ lsStats.totalReviews = 3
    /\ lsStats.correctReviews = 3
    /\ \E i \in DOMAIN lsFlashcards :
           /\ lsFlashcards[i].repetitions = 3
           /\ lsFlashcards[i].interval = 8
           /\ lsFlashcards[i].easeFactor = 246

\* C3: for every card and every quality < 3 a review sets interval = 1 and
\* repetitions = 0 and lowers the ease factor by 0.2, not below 1.3.
C3_FailedReview ==
    [][\A cardId \in AnyId, quality \in Qualities :
          LET i == StoredAt(cardId)
          IN  (i # 0 /\ quality < 3 /\ recordReview(cardId, quality)) =>
                  LET old == lsFlashcards[i]
                      new == lsFlashcards'[i]
                  IN  /\ new.interval = 1
                      /\ new.repetitions = 0
                      /\ new.easeFactor = IF old.easeFactor - 20 < 130 THEN 130
                                          ELSE old.easeFactor - 20]_vars

\* the card with ease factor 2.0 after its one, failed, review
C3_Witness ==
    /\ lsStats.totalReviews = 1
    /\ lsStats.correctReviews = 0
    /\ \E i \in DOMAIN lsFlashcards :
           /\ lsFlashcards[i].interval = 1
           /\ lsFlashcards[i].repetitions = 0
           /\ lsFlashcards[i].easeFactor = 180
           /\ lsFlashcards[i].lastReview = now

\* the store changed in this step
StoreChanged == lsFlashcards' # lsFlashcards \/ lsStats' # lsStats

\* C4: for every integer quality q a review with q, on the scheduler or
\* through the session, has the same effect on the card, on UserStats and on
\* the session score as a review with min(5, max(0, q)).
C4_QualityClamped ==
    [][\A cardId \in StoredIds \cup {NoSuchId}, quality \in Qualities \ (0..5) :
          /\ recordReview(cardId, quality)
                 => recordReview(cardId, ClampedTo05(quality))
          /\ recordCardReview(cardId, quality)
                 => recordCardReview(cardId, ClampedTo05(quality))]_vars

\* a session with a score of one over a card whose first review was perfect:
\* what a review with quality 5, or 6, leaves
C4_Witness ==
    /\ studySession # null
    /\ studySession.score = 1
    /\ lsStats.totalReviews = 1
    /\ \E i \in DOMAIN lsFlashcards :
           /\ lsFlashcards[i].repetitions = 1
           /\ lsFlashcards[i].easeFactor = 260

\* C5: each review of an existing card, on the scheduler or through the
\* session, adds exactly 1 to totalReviews, and adds 1 to correctReviews if
\* the clamped quality is >= 3 and 0 otherwise.
C5_ReviewCounted ==
    [][\A cardId \in StoredIds, quality \in Qualities :
          (/\ StoreChanged
           /\ recordReview(cardId, quality) \/ recordCardReview(cardId, quality))
          => /\ lsStats'.totalReviews = lsStats.totalReviews + 1
             /\ lsStats'.correctReviews =
                    lsStats.correctReviews
                        + (IF ClampedTo05(quality) >= 3 THEN 1 ELSE 0)]_vars

\* two reviews counted, one of them correct and rated inside a session
C5_Witness ==
    /\ lsStats.totalReviews = 2
    /\ lsStats.correctReviews = 1
    /\ studySession # null
    /\ studySession.score = 1

\* ids generateId made for decks
IssuedDeckIds == {i \in DOMAIN issued : issued[i] = "deck"}

\* cards of the store that belong to the deck
CardsOf(cards, deckId) == {cards[i] : i \in {j \in DOMAIN cards : cards[j].deckId = deckId}}

\* C6: after deleteDeck(d) the deck d is absent from listDecks, listCards
\* holds no card whose deckId is d, and every card of every other deck is
\* still there, unchanged.
C6_DeleteDeckCascades ==
    [][\A d \in IssuedDeckIds :
          deleteDeck(d) =>
              /\ \A i \in DOMAIN lsDecks' : lsDecks'[i].id # d
              /\ \A i \in DOMAIN lsFlashcards' : lsFlashcards'[i].deckId # d
              /\ \A e \in AnyId \ {d} :
                     CardsOf(lsFlashcards', e) = CardsOf(lsFlashcards, e)
              /\ Len(lsFlashcards') = Len(lsFlashcards) - Cardinality(CardsOf(lsFlashcards, d))]_vars

\* a deck is gone, no card names it, and the other deck still has its card
C6_Witness ==
    \E d \in IssuedDeckIds :
        /\ \A i \in DOMAIN lsDecks : lsDecks[i].id # d
        /\ CardsOf(lsFlashcards, d) = {}
        /\ Cardinality(IssuedDeckIds) = 2
        /\ Cardinality(DOMAIN issued \ IssuedDeckIds) = 2
        /\ \E i \in DOMAIN lsDecks :
               /\ lsDecks[i].cardCount = 1
               /\ CardsOf(lsFlashcards, lsDecks[i].id) # {}

\* C7: for a deck of the store, after any sequence of createCard and
\* deleteCard calls (deleteCard of ids that do not exist included), cardCount
\* equals the number of stored cards whose deckId is that deck.
C7_CountAfterCreateDelete ==
    \A i \in DOMAIN lsDecks :
        lsDecks[i].cardCount = Cardinality(CardsOf(lsFlashcards, lsDecks[i].id))

\* a deck that counts its one card after two cards were made for the store
\* and one of them is gone
C7_Witness ==
    /\ Cardinality({i \in DOMAIN issued : issued[i] = "card"}) = 2
    /\ Len(lsFlashcards) = 1
    /\ \E i \in DOMAIN lsDecks :
           /\ lsDecks[i].cardCount = 1
           /\ lsFlashcards[1].deckId = lsDecks[i].id

\* C8: in every reachable state of the store, under all of its operations
\* (updateDeck, updateCard and importSnapshot included), each deck's cardCount
\* equals the number of live cards whose deckId references the deck.
C8_CountAlwaysConsistent ==
    \A i \in DOMAIN lsDecks :
        lsDecks[i].cardCount = Len(getFlashcardsIn(lsFlashcards, lsDecks[i].id))

\* C9: dueCards(deck, now) contains every card of the deck that was never
\* reviewed and every card of it with nextReview <= now, contains no card
\* whose nextReview is later than now, and nothing but cards of the deck.
C9_DueSet ==
    \A deckId \in AnyId :
        LET due == Range(getCardsDueForReview(deckId))
        IN  /\ \A i \in DOMAIN lsFlashcards :
                   LET c == lsFlashcards[i]
                   IN  c.deckId = deckId =>
                           /\ c.lastReview = Absent => c \in due
                           /\ (c.nextReview # Absent /\ c.nextReview > now) => c \notin due
                           /\ (c.nextReview # Absent /\ c.nextReview <= now) => c \in due
            /\ \A c \in due : c.deckId = deckId /\ c \in Range(lsFlashcards)

\* a deck with a card that is due again at this very moment and a card whose
\* next review lies ahead
C9_Witness ==
    \E i, j \in DOMAIN lsFlashcards :
        /\ lsFlashcards[i].deckId = lsFlashcards[j].deckId
        /\ lsFlashcards[i].nextReview = now
        /\ lsFlashcards[j].nextReview > now
        /\ lsFlashcards[i] \in Range(getCardsDueForReview(lsFlashcards[i].deckId))
        /\ lsFlashcards[j] \notin Range(getCardsDueForReview(lsFlashcards[i].deckId))

\* C10: after recordReview at time t, with any quality, the card has
\* lastReview = t and nextReview = t + its new interval in days, the interval
\* is at least one day, and the card is not due at any time before that.
C10_ReviewScheduled ==
    [][\A cardId \in StoredIds, quality \in Qualities :
          (StoreChanged /\ recordReview(cardId, quality)) =>
              LET new == lsFlashcards'[StoredAt(cardId)]
              IN  /\ new.lastReview = now
                  /\ new.interval >= 1
                  /\ new.nextReview = now + new.interval * DayLength
                  /\ \A t \in now..(now + new.interval * DayLength - 1) :
                         new \notin Range(getCardsDueForReviewIn(lsFlashcards', new.deckId, t))]_vars

\* a card that failed its review at the start of the clock and is not due
\* one unit later
C10_Witness ==
    /\ now = 2
    /\ \E i \in DOMAIN lsFlashcards :
           /\ lsFlashcards[i].lastReview = 1
           /\ lsFlashcards[i].repetitions = 0
           /\ lsFlashcards[i].nextReview = 1 + DayLength
           /\ lsFlashcards[i] \notin Range(getCardsDueForReview(lsFlashcards[i].deckId))

\* C11: advance() on an Active session adds one to currentIndex, also from
\* the last card of the working set, where currentIndex becomes the length
\* of the working set; the session stays Active.
C11_AdvanceIncrements ==
    (studySession # null /\ studySession.currentIndex < Len(studySession.cards))
        => /\ moveToNextCardIn(studySession) # null
           /\ moveToNextCardIn(studySession).currentIndex
                  = studySession.currentIndex + 1

\* C12: review(cardId, quality) on an Active session adds 1 to the score if
\* quality >= 3 and nothing otherwise, and leaves currentIndex, mode, deckId,
\* startTime and the working set as they were.
C12_ReviewChangesOnlyScore ==
    studySession # null =>
        \A cardId \in StoredIds \cup {NoSuchId}, quality \in Qualities :
            LET after == recordCardReviewIn(getFlashcards(0), getStats, flashcards,
                                            studySession, cardId, quality, now).session
            IN  /\ after # null
                /\ after.score = studySession.score + (IF quality >= 3 THEN 1 ELSE 0)
                /\ after.currentIndex = studySession.currentIndex
                /\ after.mode = studySession.mode
                /\ after.deckId = studySession.deckId
                /\ after.startTime = studySession.startTime
                /\ after.cards = studySession.cards

\* a session on its second card whose first card, still new in the working
\* set, has been reviewed in the store, with one point scored
C12_Witness ==
    /\ studySession # null
    /\ studySession.currentIndex = 1
    /\ studySession.score = 1
    /\ \E i \in DOMAIN lsFlashcards :
           /\ lsFlashcards[i].id = studySession.cards[1].id
           /\ lsFlashcards[i].repetitions = 1
           /\ studySession.cards[1].repetitions = 0

\* C13: start(deckId, mode), from Idle or over a session in progress, leaves
\* a session with that deckId and mode, currentIndex 0, score 0 and cards
\* taken from the store at that moment (learn: all cards of the deck in store
\* order); nothing of a replaced session is kept.
C13_StartReplaces ==
    [][StartStudySession =>
          /\ studySession' # null
          /\ studySession'.currentIndex = 0
          /\ studySession'.score = 0
          /\ studySession'.startTime = now
          /\ studySession'.mode \in {"learn", "test", "review"}
          /\ \A i \in DOMAIN studySession'.cards :
                 /\ studySession'.cards[i] \in Range(lsFlashcards)
                 /\ studySession'.cards[i].deckId = studySession'.deckId
          /\ studySession'.mode = "learn" =>
                 studySession'.cards =
                     SelectSeq(lsFlashcards,
                               LAMBDA c : c.deckId = studySession'.deckId)]_vars

\* a fresh learn session over both cards of the deck as the store holds
\* them, one of them already reviewed with success
C13_Witness ==
    /\ studySession # null
    /\ studySession.mode = "learn"
    /\ studySession.currentIndex = 0
    /\ studySession.score = 0
    /\ Len(studySession.cards) = 2
    /\ studySession.cards = lsFlashcards
    /\ lsStats.correctReviews = 1
    /\ \E i \in DOMAIN lsFlashcards : lsFlashcards[i].repetitions = 1

\* C17: the working set of a test-mode session over a deck of n cards has at
\* most min(n, 30) cards, all of them cards of that deck and no card twice;
\* of 31 cards the cut keeps 30.
C17_TestWorkingSet ==
    /\ Len(TestSlice([i \in 1..31 |-> i])) = 30
    /\ (studySession # null /\ studySession.mode = "test") =>
           LET cards == studySession.cards
               n == Cardinality({i \in DOMAIN lsFlashcards :
                                     lsFlashcards[i].deckId = studySession.deckId})
           IN  /\ Len(cards) <= n
               /\ Len(cards) <= 30
               /\ \A i \in DOMAIN cards :
                      /\ cards[i].deckId = studySession.deckId
                      /\ \E j \in DOMAIN lsFlashcards :
                             /\ lsFlashcards[j].id = cards[i].id
                             /\ lsFlashcards[j].deckId = studySession.deckId
               /\ \A i, j \in DOMAIN cards : cards[i].id = cards[j].id => i = j

\* a test session whose two cards stand in the order opposite to the store's
C17_Witness ==
    /\ studySession # null
    /\ studySession.mode = "test"
    /\ Len(studySession.cards) = 2
    /\ Len(lsFlashcards) = 2
    /\ studySession.cards[1].id = lsFlashcards[2].id
    /\ studySession.cards[2].id = lsFlashcards[1].id

\* C18: the working set of a review-mode session is exactly the cards of the
\* deck that are due at the start and tagged 'hard', in store order.
C18_ReviewWorkingSet ==
    [][(StartStudySession /\ studySession' # null /\ studySession'.mode = "review") =>
          studySession'.cards =
              SelectSeq(lsFlashcards,
                        LAMBDA c : /\ c.deckId = studySession'.deckId
                                   /\ c.difficulty = "hard"
                                   /\ (c.nextReview = Absent \/ c.nextReview <= now))]_vars

\* a review session of one card, started while the store holds a card that is
\* hard and due, and a card that is hard and has its next review ahead
C18_Witness ==
    /\ studySession # null
    /\ studySession.mode = "review"
    /\ Len(studySession.cards) = 1
    /\ studySession.startTime = now
    /\ \E i, j \in DOMAIN lsFlashcards :
           /\ lsFlashcards[i] = studySession.cards[1]
           /\ lsFlashcards[i].difficulty = "hard"
           /\ lsFlashcards[i].nextReview = Absent
           /\ lsFlashcards[j].difficulty = "hard"
           /\ lsFlashcards[j].nextReview > now
           /\ lsFlashcards[j].deckId = studySession.deckId

C16_NoStaleExpiry ==
    [][(NeedsRender /\ lsStats'.totalReviews # lsStats.totalReviews) =>
          /\ seenTimeLeft = 1
          /\ cardTimeLeft = 0
          /\ ~sessionSet
          /\ seenIndex = IndexOf(studySession)]_vars

\* C19: a mutation of the store during which a write fails either applies
\* all of its effects or none of them, and reports the failure as a result
\* instead of throwing.
C19_AtomicMutations ==
    [][\A failAt \in 1..3 :
          /\ \A deckId \in AnyId :
                 /\ failingDeleteDeck(deckId, failAt)
                        => /\ ~thrown'
                           /\ UNCHANGED storeVars \/ deleteDeck(deckId)
                 /\ failingDeleteAllFlashcardsInDeck(deckId, failAt)
                        => /\ ~thrown'
                           /\ UNCHANGED storeVars \/ deleteAllFlashcardsInDeck(deckId)
                 /\ \A difficulty \in Difficulties :
                        failingCreateFlashcard(deckId, difficulty, failAt)
                            => /\ ~thrown'
                               /\ UNCHANGED storeVars \/ createFlashcard(deckId, difficulty)
          /\ \A cardId \in AnyId :
                 failingDeleteFlashcard(cardId, failAt)
                     => /\ ~thrown'
                        /\ UNCHANGED storeVars \/ deleteFlashcard(cardId)
          /\ \A data \in {exportData, EmptySnapshot},
                keys \in SUBSET {"decks", "flashcards", "stats"} :
                 failingImportData(data, keys, failAt)
                     => /\ ~thrown'
                        /\ UNCHANGED storeVars \/ importData(data, keys)]_vars

\* ids of the decks in the store
StoredDeckIds == {lsDecks[i].id : i \in DOMAIN lsDecks}

\* C20: updateDeck, updateCard, deleteCard and recordReview called with an
\* id that is not in the store return nothing (false for deleteCard) and
\* leave decks, cards and UserStats as they are.
C20_UnknownIdNoOp ==
    /\ [](/\ \A deckId \in AnyId \ StoredDeckIds, updates \in DeckUpdates :
                 updateDeckResult(deckId, updates) = null
          /\ \A cardId \in AnyId \ StoredIds :
                 /\ \A updates \in CardUpdates :
                        updateFlashcardResult(cardId, updates) = null
                 /\ deleteFlashcardResult(cardId) = FALSE
                 /\ \A quality \in Qualities :
                        recordReviewResult(cardId, quality) = null)
    /\ [][/\ \A deckId \in AnyId \ StoredDeckIds, updates \in DeckUpdates :
                 updateDeck(deckId, updates) => UNCHANGED storeVars
          /\ \A cardId \in AnyId \ StoredIds :
                 /\ \A updates \in CardUpdates :
                        updateFlashcard(cardId, updates) => UNCHANGED storeVars
                 /\ deleteFlashcard(cardId) => UNCHANGED storeVars
                 /\ \A quality \in Qualities :
                        recordReview(cardId, quality) => UNCHANGED storeVars]_vars

\* a store with a deck and a reviewed card, and the id of a card that was
\* deleted: known once, in the store no more
C20_Witness ==
    /\ Len(lsDecks) >= 1
    /\ lsStats.totalReviews >= 1
    /\ \E i \in DOMAIN lsFlashcards : lsFlashcards[i].lastReview # Absent
    /\ \E id \in DOMAIN issued : issued[id] = "card" /\ id \notin StoredIds

DamagedDecks == lsDecks \in {Missing, Unparsable}
DamagedCards == lsFlashcards \in {Missing, Unparsable}
DamagedStats == lsStats \in {MissingStats, UnparsableStats}

\* C21: while a persisted collection is missing or unparsable, listDecks and
\* listCards return the empty sequence, getDeck returns absent and getStats
\* returns the all-zero record; an operation that reads such a collection
\* raises no fault and writes what it writes on an empty collection.
C21_DamagedReadsAsEmpty ==
    /\ [](/\ DamagedDecks =>
                /\ getDecks = <<>>
                /\ \A deckId \in AnyId : getDeckIn(getDecks, deckId) = 0
          /\ DamagedCards =>
                /\ \A deckId \in AnyId \cup {0} : getFlashcards(deckId) = <<>>
                /\ \A cardId \in AnyId, updates \in CardUpdates :
                        updateFlashcardResult(cardId, updates) = null
          /\ DamagedStats =>
                getStats = [totalCards |-> 0, totalDecks |-> 0, totalReviews |-> 0,
                            correctReviews |-> 0, streak |-> 0]
          /\ ~thrown)
    /\ [][/\ (DamagedDecks /\ lsDecks' # lsDecks /\ ~DamagedDecks') =>
                \/ lsDecks' = <<>>
                \/ \E n \in Names \cup NewNames :
                        lsDecks' = <<[id |-> Len(issued) + 1, name |-> n, cardCount |-> 0]>>
          /\ (DamagedCards /\ lsFlashcards' # lsFlashcards /\ ~DamagedCards') =>
                \/ lsFlashcards' = <<>>
                \/ /\ Len(lsFlashcards') = 1
                   /\ lsFlashcards'[1].id = Len(issued) + 1
                   /\ lsFlashcards'[1].repetitions = 0
          /\ (DamagedStats /\ lsStats' # lsStats /\ ~DamagedStats') =>
                /\ lsStats'.totalReviews = 1
                /\ lsStats'.correctReviews \in {0, 1}
                /\ lsStats'.totalCards = 0
                /\ lsStats'.totalDecks = 0]_vars

\* createDeck stored its deck alone over an unparsable deck list, and a
\* review of a stored card then counted from zero over unparsable statistics
C21_Witness ==
    /\ ~DamagedCards /\ Len(lsFlashcards) = 2
    /\ ~DamagedStats /\ lsStats.totalReviews = 1
    /\ \E n \in Names \cup NewNames : lsDecks = <<NewDeck(4, n)>>
    /\ ~thrown
Collections == {"decks", "flashcards", "stats"}

\* C22: in every reachable state of the store, importData of what exportData
\* returns leaves the decks, the cards and the statistics as they read
\* before, and importData of an input that leaves a collection out leaves
\* the key of that collection untouched.
C22_ImportExportRoundTrip ==
    /\ LET after == StoreAfterImport(exportData, Collections)
       IN  /\ after.decks = getDecks
           /\ after.flashcards = getFlashcards(0)
           /\ after.stats = getStats
    /\ \A data \in {exportData, EmptySnapshot}, keys \in SUBSET Collections :
           LET after == StoreAfterImport(data, keys)
           IN  /\ "decks" \notin keys => after.decks = lsDecks
               /\ "flashcards" \notin keys => after.flashcards = lsFlashcards
               /\ "stats" \notin keys => after.stats = lsStats

\* no key was there and the export was imported with its decks alone: the
\* deck list reads empty as before, the other keys are still missing
C22_Witness ==
    /\ lsDecks = <<>>
    /\ lsFlashcards = Missing
    /\ lsStats = MissingStats
SchedulingFields ==
    {"interval", "easeFactor", "repetitions", "lastReview", "nextReview", "difficulty"}

\* C23: after recordCardReview(cardId, quality) on a card of the working set
\* that is in the store, the session's copy of the card carries the same
\* interval, easeFactor, repetitions, lastReview, nextReview and difficulty
\* as the store's record of it.
C23_SessionCopyFollowsStore ==
    studySession # null =>
        \A k \in DOMAIN studySession.cards, quality \in Qualities :
            LET cardId == studySession.cards[k].id
                r == recordCardReviewIn(getFlashcards(0), getStats, flashcards,
                                        studySession, cardId, quality, now)
                i == getFlashcardIn(r.cards, cardId)
            IN  i # 0 =>
                    \A f \in SchedulingFields :
                        r.session.cards[k][f] = r.cards[i][f]
\* C24: a recorded review sets the difficulty tag from the clamped quality
\* alone: "hard" for a quality of 2 or less; for 4 or more "easy" if the tag
\* was "easy" and "medium" otherwise; a quality of 3 leaves the tag.
C24_DifficultyFromQuality ==
    [][\A cardId \in StoredIds, quality \in Qualities :
          recordReview(cardId, quality) =>
              LET q == ClampedTo05(quality)
                  old == lsFlashcards[StoredAt(cardId)].difficulty
                  new == lsFlashcards'[StoredAt(cardId)].difficulty
              IN  /\ q <= 2 => new = "hard"
                  /\ q >= 4 => new = (IF old = "easy" THEN "easy" ELSE "medium")
                  /\ q = 3 => new = old]_vars

\* two good reviews and the card is still easy
C24_Witness ==
    /\ lsStats.totalReviews = 2
    /\ lsStats.correctReviews = 2
    /\ \E i \in DOMAIN lsFlashcards :
           /\ lsFlashcards[i].difficulty = "easy"
           /\ lsFlashcards[i].lastReview = now
\* C25: two cards that differ only in their difficulty tag have the same
\* interval, easeFactor, repetitions and nextReview after the same sequence of
\* review qualities at the same times.
C25_TagDoesNotSchedule ==
    Len(lsFlashcards) = 2 =>
        \A f \in {"interval", "easeFactor", "repetitions", "lastReview", "nextReview"} :
            lsFlashcards[1][f] = lsFlashcards[2][f]

\* both cards were reviewed three times, well, and still carry different
\* tags: the interval is the product of the last interval and the ease factor
C25_Witness ==
    /\ lsStats.totalReviews = 2 * MaxReviews
    /\ lsFlashcards[1].repetitions = 3
    /\ lsFlashcards[1].interval > 3
    /\ lsFlashcards[1].difficulty = "easy"
    /\ lsFlashcards[2].difficulty = "medium"
    /\ lsFlashcards[1].lastReview = MaxNow
\* C26: createDeck, updateDeck, deleteDeck, createCard, updateCard,
\* deleteCard, deleteAllCardsInDeck and the session operations start, advance
\* and end leave totalCards, totalDecks, totalReviews, correctReviews and
\* streak of the stored statistics unchanged.  These operations are the
\* steps of NextFrame, so that the frame is stated of every step.
C26_OnlyReviewsChangeStats ==
    [][\A f \in {"totalCards", "totalDecks", "totalReviews", "correctReviews",
                  "streak"} :
          lsStats'[f] = lsStats[f]]_vars
\* a card was created, a card was retagged and a session was started and
\* advanced, and the statistics still count the two reviews made before
C26_Witness ==
    /\ lsStats.totalReviews = 2
    /\ lsStats.correctReviews = 1
    /\ Len(lsFlashcards) = 2
    /\ \E i \in DOMAIN lsFlashcards : lsFlashcards[i].difficulty = "hard"
    /\ studySession # null
    /\ studySession.currentIndex = 1
\* C27: in a test session the expiry of a countdown records at most one
\* review: once the expiry of the last card's countdown has been rendered (no
\* time left in this render and in the one before, on the same card), the
\* renders that follow without any input record no further review, so that
\* totalReviews stops growing.
C27_ExpiryReviewsOnce ==
    [][(/\ NeedsRender
        /\ TestRunning(studySession)
        /\ studySession.currentIndex + 1 = Len(studySession.cards)
        /\ seenIndex = studySession.currentIndex
        /\ seenTimeLeft = 0
        /\ cardTimeLeft = 0)
          => lsStats'.totalReviews = lsStats.totalReviews]_vars
\* C28: during a session the score never exceeds the amount by which
\* correctReviews has grown since the session started, whatever reviews,
\* advances, card creations, card deletions and deck deletions are
\* interleaved.  correctReviews is 0 when the first session starts and a start
\* sets the score to 0, so that the score never exceeds correctReviews.
C28_ScoreWithinCorrectReviews ==
    studySession # null => studySession.score <= lsStats.correctReviews
\* C29: after loadDecks and any sequence of the application store's
\* createDeck, addFlashcard, deleteFlashcard and deleteDeck, every deck of
\* the in-memory deck list has the cardCount of the same deck in the store.
C29_ShownCountIsStoredCount ==
    \A i \in DOMAIN decks :
        LET j == getDeckIn(getDecks, decks[i].id)
        IN  /\ j # 0
            /\ decks[i].cardCount = getDecks[j].cardCount
\* C30: a card deleted from the store while a session holds its snapshot is
\* never created again: no step brings a card into the store, and a step
\* that reviews through the session (it changes the session or the
\* statistics) leaves the stored card ids and the decks with their
\* cardCount as they were.
C30_DeletedCardStaysDeleted ==
    [][/\ StoredIds' \subseteq StoredIds
       /\ (studySession' # studySession \/ lsStats' # lsStats) =>
              /\ StoredIds' = StoredIds
              /\ lsDecks' = lsDecks]_vars

\* the first card of the session was deleted from the store and then rated
\* well: the score counts it, the store still lacks it
C30_Witness ==
    /\ studySession # null
    /\ studySession.currentIndex = 1
    /\ studySession.score = 1
    /\ lsStats.totalReviews = 0
    /\ studySession.cards[1].id \notin StoredIds
    /\ Len(lsDecks) = 1
====
